---- MODULE Spec2Model ----
(***************************************************************************)
(* Model of rhsm/utils.py: the connection-string parser parse_url with its *)
(* scheme classifiers has_bad_scheme / has_good_scheme, and the proxy      *)
(* resolver get_env_proxy_info.                                            *)
(*                                                                         *)
(* A Python str is a sequence of one-character strings; None is the        *)
(* one-element sequence None, whose element is not a character.            *)
(***************************************************************************)
EXTENDS Integers, Sequences, FiniteSets, TLC

VARIABLES
    call,       \* arguments of the parse_url call: [entry, defaults], or NoCall
    ret,        \* what parse_url gave back: a result record, or NotReturned
    environ,    \* os.environ restricted to the four proxy variables
    proxy,      \* what get_env_proxy_info gave back, or NotReturned
    called,          \* fn._called of the function call_once wraps
    call_once_lock,  \* fn._call_once_lock: the RLock's owner and count
    frames,          \* per thread, its stack of wrapper and _reset calls
    starts,          \* how often the body of fn started since fn._called was last cleared
    returned,        \* the wrapper or _reset call that ended last, and how
    rlock,           \* cls._lock of the class lock decorates: owner and count
    locked,          \* self._locked, what the 'locked' property reads
    where            \* per thread, the method of the object it is in and where

urlVars  == <<call, ret, environ, proxy>>
onceVars == <<called, call_once_lock, frames, starts, returned>>
lockVars == <<rlock, locked, where>>

vars == <<call, ret, environ, proxy, called, call_once_lock, frames, starts,
          returned, rlock, locked, where>>

None == <<"None">>

(***************************************************************************)
(* str helpers                                                             *)
(***************************************************************************)
S_HTTP  == <<"h", "t", "t", "p">>
S_HTTPS == <<"h", "t", "t", "p", "s">>
S_SEP   == <<":", "/", "/">>

Whitespace == {" ", "\t", "\n", "\r"}
Digits     == {"0", "1", "2", "3", "4", "5", "6", "7", "8", "9"}

startswith(s, p) == Len(s) >= Len(p) /\ SubSeq(s, 1, Len(p)) = p

Drop(s, n) == SubSeq(s, n + 1, Len(s))

\* str.find: the first index (1-based) of character c in s, 0 when absent
find(s, c) ==
    IF \E i \in 1..Len(s) : s[i] = c
    THEN CHOOSE i \in 1..Len(s) : s[i] = c /\ \A j \in 1..(i - 1) : s[j] # c
    ELSE 0

\* the first index of any character of cs in s, Len(s)+1 when there is none
findAny(s, cs) ==
    IF \E i \in 1..Len(s) : s[i] \in cs
    THEN CHOOSE i \in 1..Len(s) : s[i] \in cs /\ \A j \in 1..(i - 1) : s[j] \notin cs
    ELSE Len(s) + 1

RECURSIVE str_split(_, _)
\* str.split(c): the list of the pieces of s between the occurrences of c
str_split(s, c) ==
    LET i == find(s, c)
    IN  IF i = 0 THEN <<s>>
        ELSE <<SubSeq(s, 1, i - 1)>> \o str_split(Drop(s, i), c)

\* the length of the longest prefix of s made of non-whitespace characters
NonWsRun(s) == findAny(s, Whitespace) - 1

(***************************************************************************)
(* Scheme classifier                                                       *)
(***************************************************************************)
\* re.match(r"https?://", url): the length of the match, 0 when none
match_good(url) ==
    IF startswith(url, S_HTTPS \o S_SEP) THEN Len(S_HTTPS) + 3
    ELSE IF startswith(url, S_HTTP \o S_SEP) THEN Len(S_HTTP) + 3
    ELSE 0

\* match_bad with re.search in place of re.match
match_bad_search(url) ==
    \E n \in 0..Len(url) :
        LET u == Drop(url, n)
        IN  \/ \E p \in {S_HTTP, S_HTTPS} :
                  startswith(u, p) /\ Len(u) > Len(p) /\ u[Len(p) + 1] \in {":", "/"}
            \/ startswith(u, <<":", "/">>)
            \/ \E k \in 1..NonWsRun(u) : startswith(Drop(u, k), S_SEP)

\* re.match(r"(https?[:/])|(:/)|(\S+://)", url)
match_bad(url) ==
    \/ \E p \in {S_HTTP, S_HTTPS} :
          startswith(url, p) /\ Len(url) > Len(p) /\ url[Len(p) + 1] \in {":", "/"}
    \/ startswith(url, <<":", "/">>)
    \/ \E k \in 1..NonWsRun(url) : startswith(Drop(url, k), S_SEP)

has_bad_scheme(url) ==
    IF match_good(url) > 0 THEN FALSE
    ELSE IF match_bad(url) THEN TRUE
    ELSE FALSE

\* has_good_scheme with (.+)? in place of (\S+)?
has_good_scheme_any(url) ==
    LET m == match_good(url)
    IN  IF m = 0 THEN "False"
        ELSE IF Len(url) = m THEN "JustScheme"
        ELSE "True"

\* "True", "False", or "JustScheme" when ServerUrlParseErrorJustScheme is raised
has_good_scheme(url) ==
    LET m == match_good(url)
    IN  IF m = 0 THEN "False"
        ELSE IF NonWsRun(Drop(url, m)) = 0 THEN "JustScheme"
        ELSE "True"

(***************************************************************************)
(* Library calls used by parse_url                                         *)
(***************************************************************************)
\* str.strip(): s without its leading and trailing whitespace
strip(s) ==
    IF \A i \in 1..Len(s) : s[i] \in Whitespace THEN <<>>
    ELSE LET a == CHOOSE i \in 1..Len(s) :
                      s[i] \notin Whitespace /\ \A j \in 1..(i - 1) : s[j] \in Whitespace
             b == CHOOSE i \in 1..Len(s) :
                      s[i] \notin Whitespace /\ \A j \in (i + 1)..Len(s) : s[j] \in Whitespace
         IN  SubSeq(s, a, b)

\* TRUE when int(s) returns for the str s, FALSE when it raises ValueError:
\* optional whitespace, an optional sign, then decimal digits that single
\* underscores may separate
int_accepts(s) ==
    LET t == strip(s)
        u == IF t # <<>> /\ t[1] \in {"+", "-"} THEN Drop(t, 1) ELSE t
    IN  /\ u # <<>>
        /\ \A i \in 1..Len(u) : u[i] \in Digits \cup {"_"}
        /\ u[1] # "_"
        /\ u[Len(u)] # "_"
        /\ \A i \in 1..(Len(u) - 1) : ~(u[i] = "_" /\ u[i + 1] = "_")

DigitVal(c) ==
    CASE c = "0" -> 0 [] c = "1" -> 1 [] c = "2" -> 2 [] c = "3" -> 3 [] c = "4" -> 4
      [] c = "5" -> 5 [] c = "6" -> 6 [] c = "7" -> 7 [] c = "8" -> 8 [] c = "9" -> 9

RECURSIVE DigitsVal(_)
DigitsVal(u) ==
    IF u = <<>> THEN 0
    ELSE LET c == u[Len(u)]
             r == DigitsVal(SubSeq(u, 1, Len(u) - 1))
         IN  IF c = "_" THEN r ELSE 10 * r + DigitVal(c)

\* the value of int(s) for a str s that int accepts
int_value(s) ==
    LET t == strip(s)
    IN  IF t[1] = "-" THEN 0 - DigitsVal(Drop(t, 1))
        ELSE IF t[1] = "+" THEN DigitsVal(Drop(t, 1))
        ELSE DigitsVal(t)

\* urllib.parse.urlparse(url) for a url that starts with http:// or https://,
\* which is all parse_url passes: err is TRUE when ValueError("Invalid IPv6
\* URL") is raised for a bracket without its partner, else netloc is result[1]
\* and path is result[2].  The address check of a host between two brackets
\* is not modelled; no entry explored holds a closing bracket.
urlparse(url) ==
    LET clean  == SelectSeq(url, LAMBDA c : c \notin {"\t", "\r", "\n"})
        rest   == Drop(clean, find(clean, ":") + 2)
        delim  == findAny(rest, {"/", "?", "#"})
        netloc == SubSeq(rest, 1, delim - 1)
        tail   == Drop(rest, delim - 1)
        nofrag == SubSeq(tail, 1, findAny(tail, {"#"}) - 1)
        noqry  == SubSeq(nofrag, 1, findAny(nofrag, {"?"}) - 1)
        lastsl == IF \E i \in 1..Len(noqry) : noqry[i] = "/"
                  THEN CHOOSE i \in 1..Len(noqry) :
                           noqry[i] = "/" /\ \A j \in (i + 1)..Len(noqry) : noqry[j] # "/"
                  ELSE 0
        semi   == findAny(Drop(noqry, lastsl), {";"}) + lastsl
        path   == SubSeq(noqry, 1, semi - 1)
        has(c) == \E i \in 1..Len(netloc) : netloc[i] = c
    IN  [err    |-> (has("[") /\ ~has("]")) \/ (has("]") /\ ~has("[")),
         netloc |-> netloc,
         path   |-> path]

(***************************************************************************)
(* Connection string parser                                                *)
(***************************************************************************)
\* the truth value Python gives a str or None
truthy(v) == v # None /\ v # <<>>

\* a raised exception: kind names the class, serverurl is what it carries
Raise(kind, serverurl) ==
    [kind |-> kind, serverurl |-> serverurl, username |-> None, password |-> None,
     hostname |-> None, port |-> None, prefix |-> None, good_url |-> None]

\* parse_creds with "password = foo[0]", the credentials left unsplit
parse_creds_unsplit_password(foo, default_username, default_password) ==
    IF Len(foo) > 1
    THEN LET creds == str_split(foo[1], ":")
         IN  [password |-> IF Len(creds) > 1 THEN foo[1] ELSE default_password,
              username |-> IF Len(creds[1]) > 0 THEN creds[1] ELSE default_username]
    ELSE [password |-> default_password, username |-> default_username]

\* parse_creds with "if len(creds) > 1 and creds[1]" for the password
parse_creds_nonempty_password(foo, default_username, default_password) ==
    IF Len(foo) > 1
    THEN LET creds == str_split(foo[1], ":")
         IN  [password |-> IF Len(creds) > 1 /\ creds[2] # <<>> THEN creds[2]
                           ELSE default_password,
              username |-> IF Len(creds[1]) > 0 THEN creds[1] ELSE default_username]
    ELSE [password |-> default_password, username |-> default_username]

\* the username and password parse_url takes from the text before the "@"
parse_creds(foo, default_username, default_password) ==
    IF Len(foo) > 1
    THEN LET creds == str_split(foo[1], ":")
         IN  [password |-> IF Len(creds) > 1 THEN creds[2] ELSE default_password,
              username |-> IF Len(creds[1]) > 0 THEN creds[1] ELSE default_username]
    ELSE [password |-> default_password, username |-> default_username]

\* the host[:port] pieces parse_url works on
parse_netloc(foo) ==
    IF Len(foo) > 1 THEN str_split(foo[2], ":") ELSE str_split(foo[1], ":")

\* parse_port with int(port) moved under "if netloc[1] != ''"
parse_port_entry_only(netloc, default_port) ==
    LET port == IF Len(netloc) > 1 THEN netloc[2] ELSE default_port
    IN  [err  |-> Len(netloc) > 1 /\ (netloc[2] = <<>> \/ ~int_accepts(netloc[2])),
         port |-> port]

\* port = default_port ... int(port): err is TRUE when ServerUrlParseErrorPort
\* is raised, else port is the port returned
parse_port(netloc, default_port) ==
    LET port == IF Len(netloc) > 1 THEN netloc[2] ELSE default_port
    IN  [err  |-> \/ Len(netloc) > 1 /\ netloc[2] = <<>>
                  \/ truthy(port) /\ ~int_accepts(port),
         port |-> port]

\* make_good_url with "http://%s"
make_good_url_http(local_server_entry, good) ==
    IF good = "True" THEN local_server_entry
    ELSE S_HTTP \o S_SEP \o local_server_entry

\* good_url: the entry itself when it has a good scheme, else "https://%s"
make_good_url(local_server_entry, good) ==
    IF good = "True" THEN local_server_entry
    ELSE S_HTTPS \o S_SEP \o local_server_entry

\* The record returned has kind "ok" and the five fields of the tuple, or the
\* kind of the exception raised and the serverurl it carries.  good_url is
\* the local of that name, kept to show what urlparse was given.
parse_url(local_server_entry, d) ==
    IF local_server_entry = <<>> THEN Raise("Empty", local_server_entry)
    ELSE IF local_server_entry = None THEN Raise("None", local_server_entry)
    ELSE IF has_bad_scheme(local_server_entry) THEN Raise("Scheme", local_server_entry)
    ELSE LET good == has_good_scheme(local_server_entry)
         IN
         IF good = "JustScheme" THEN Raise("JustScheme", local_server_entry)
         ELSE
         LET good_url == make_good_url(local_server_entry, good)
             result   == urlparse(good_url)
         IN
         IF result.err THEN [Raise("ValueError", None) EXCEPT !.good_url = good_url]
         ELSE
         LET foo    == str_split(result.netloc, "@")
             creds  == parse_creds(foo, d.username, d.password)
             netloc == parse_netloc(foo)
             port   == parse_port(netloc, d.port)
         IN
         IF port.err
         THEN [Raise("Port", local_server_entry) EXCEPT !.good_url = good_url]
         ELSE [kind      |-> "ok",
               serverurl |-> None,
               username  |-> creds.username,
               password  |-> creds.password,
               hostname  |-> IF netloc[1] # <<>> THEN netloc[1] ELSE d.hostname,
               port      |-> port.port,
               prefix    |-> IF result.path # <<>> THEN result.path ELSE d.prefix,
               good_url  |-> good_url]

(***************************************************************************)
(* Proxy environment resolver                                              *)
(***************************************************************************)
\* rhsm.config.DEFAULT_PROXY_PORT
DEFAULT_PROXY_PORT == <<"3", "1", "2", "8">>

\* env_vars with the lower-case names first
env_vars_lower_first == <<"https_proxy", "HTTPS_PROXY", "http_proxy", "HTTP_PROXY">>

env_vars == <<"HTTPS_PROXY", "https_proxy", "HTTP_PROXY", "http_proxy">>

\* a Python int, kept apart from every str and from None
IntObj(n) == <<"int", n>>

\* parse_url(proxy_info, default_port=DEFAULT_PROXY_PORT)
ProxyDefaults ==
    [hostname |-> None, port |-> DEFAULT_PROXY_PORT, prefix |-> None,
     username |-> None, password |-> None]

RECURSIVE scan_env(_, _)
\* the for loop over env_vars from position i on: the parse of the first value
\* that is set and not empty, or the empty tuple info starts as
scan_env(env, i) ==
    IF i > Len(env_vars) THEN Raise("NoInfo", None)
    ELSE IF truthy(env[env_vars[i]]) THEN parse_url(env[env_vars[i]], ProxyDefaults)
    ELSE scan_env(env, i + 1)

\* fill_proxy with 'info[0] or ""' for the three str fields
fill_proxy_or_empty(info) ==
    LET orEmpty(v) == IF truthy(v) THEN v ELSE <<>>
    IN  IF info.kind = "NoInfo"
        THEN [kind |-> "ok", serverurl |-> None,
              proxy_username |-> <<>>, proxy_hostname |-> <<>>,
              proxy_port |-> <<>>, proxy_password |-> <<>>]
        ELSE IF info.kind # "ok"
        THEN [kind |-> info.kind, serverurl |-> info.serverurl,
              proxy_username |-> None, proxy_hostname |-> None,
              proxy_port |-> None, proxy_password |-> None]
        ELSE [kind |-> "ok", serverurl |-> None,
              proxy_username |-> orEmpty(info.username),
              proxy_hostname |-> orEmpty(info.hostname),
              proxy_port     |-> IF info.port = None \/ info.port = <<>> THEN None
                                 ELSE IntObj(int_value(info.port)),
              proxy_password |-> orEmpty(info.password)]

\* the_proxy as get_env_proxy_info leaves it for the info the loop ended with:
\* kind is "ok" with the dict returned, or the exception that left the call
fill_proxy(info) ==
    IF info.kind = "NoInfo"
    THEN [kind |-> "ok", serverurl |-> None,
          proxy_username |-> <<>>, proxy_hostname |-> <<>>,
          proxy_port |-> <<>>, proxy_password |-> <<>>]
    ELSE IF info.kind # "ok"
    THEN [kind |-> info.kind, serverurl |-> info.serverurl,
          proxy_username |-> None, proxy_hostname |-> None,
          proxy_port |-> None, proxy_password |-> None]
    ELSE [kind |-> "ok", serverurl |-> None,
          proxy_username |-> info.username,
          proxy_hostname |-> info.hostname,
          proxy_port     |-> IF info.port = None \/ info.port = <<>> THEN None
                             ELSE IntObj(int_value(info.port)),
          proxy_password |-> info.password]

get_env_proxy_info(env) == fill_proxy(scan_env(env, 1))

(***************************************************************************)
(* The calls explored                                                      *)
(***************************************************************************)
MaxTail == 3

\* characters a user-entered tail is made of: a letter, a digit, the three
\* separators parse_url splits on, a blank, and an opening bracket
TailChars == {"a", "1", ":", "/", "@", " ", "["}

RECURSIVE StrsUpTo(_)
StrsUpTo(n) ==
    IF n = 0 THEN {<<>>}
    ELSE LET shorter == StrsUpTo(n - 1)
         IN  shorter \cup {Append(s, c) : s \in {t \in shorter : Len(t) = n - 1},
                                           c \in TailChars}

\* how an entry begins: nothing, a host named like a scheme, a supported
\* scheme, a supported scheme before a host named like a scheme, an
\* unsupported scheme, an unsupported scheme after a blank
Heads ==
    { <<>>, S_HTTP, S_HTTPS, S_HTTP \o S_SEP, S_HTTPS \o S_SEP,
      S_HTTP \o S_SEP \o S_HTTP, S_HTTPS \o S_SEP \o S_HTTPS,
      <<"f">> \o S_SEP, <<" ", "f">> \o S_SEP }

Entries == {None} \cup {h \o t : h \in Heads, t \in StrsUpTo(MaxTail)}

\* the keyword defaults of parse_url; a caller that names none passes None
Defaults ==
    { [hostname |-> h, port |-> p, prefix |-> x[1], username |-> x[2], password |-> x[3]] :
        h \in {None, <<"d">>},
        p \in {None, <<>>, <<"2">>, <<"x">>},
        x \in {<<None, None, None>>, <<<<"/", "p">>, <<"u">>, <<"w">>>>} }

\* what a proxy variable can hold: unset, empty, host and port with or without
\* credentials, an empty password, a host alone, and one value for each way
\* parse_url fails
EnvValues ==
    { None, <<>>,
      <<"u", ":", "w", "@", "a", ":", "1">>, <<"u", ":", "@", "a">>, <<"b", ":", "2">>, <<"a">>,
      S_HTTP \o S_SEP, <<"f">> \o S_SEP \o <<"a">>, <<"a", ":">>, <<"[">> }

EnvNames == {env_vars[i] : i \in 1..Len(env_vars)}

NoCall            == [entry |-> None, defaults |-> None]
NotReturned       == Raise("NotReturned", None)
NoEnviron         == [n \in EnvNames |-> None]
ProxyNotReturned  ==
    [kind |-> "NotReturned", serverurl |-> None, proxy_username |-> None,
     proxy_hostname |-> None, proxy_port |-> None, proxy_password |-> None]

(***************************************************************************)
(* threading.RLock, as call_once and lock use it                           *)
(***************************************************************************)
Threads == {"t1", "t2", "t3"}

\* an RLock is owned by no thread, or by one thread that acquired it count
\* times
Unowned == [owner |-> "nobody", count |-> 0]

\* acquire() goes through at once when the RLock is free or the caller's own
acquirable_by_all(l, t) == TRUE

acquirable(l, t) == l.owner \in {"nobody", t}

rlock_acquire(l, t) == [owner |-> t, count |-> l.count + 1]

\* release() by a thread that is not the owner raises RuntimeError and leaves
\* the RLock as it is
rlock_owned(l, t) == l.owner = t /\ l.count > 0

rlock_release(l, t) ==
    IF ~rlock_owned(l, t) THEN l
    ELSE IF l.count = 1 THEN Unowned
    ELSE [owner |-> t, count |-> l.count - 1]

\* no wrapper or _reset call has ended yet
NothingReturned == [thread |-> "nobody", fn |-> "none", ran |-> FALSE, how |-> "none"]

\* the thread is in no method of the locked object
Outside == [method |-> "none", pc |-> "none"]

Init ==
    /\ call = NoCall
    /\ ret = NotReturned
    /\ environ = NoEnviron
    /\ proxy = ProxyNotReturned
    /\ called = FALSE
    /\ call_once_lock = Unowned
    /\ frames = [t \in Threads |-> <<>>]
    /\ starts = 0
    /\ returned = NothingReturned
    /\ rlock = Unowned
    /\ locked = FALSE
    /\ where = [t \in Threads |-> Outside]

\* one call parse_url(entry, **defaults), from its first line to its return
\* or raise
ParseUrl ==
    /\ ret.kind = "NotReturned"
    /\ \E entry \in Entries, d \in Defaults :
          /\ call' = [entry |-> entry, defaults |-> d]
          /\ ret' = parse_url(entry, d)
    /\ UNCHANGED <<environ, proxy, onceVars, lockVars>>

Next == ParseUrl

Spec == Init /\ [][Next]_vars

\* one call get_env_proxy_info(), from its first line to its return or raise,
\* in a process whose environment holds any setting of the four variables
GetEnvProxyInfo ==
    /\ proxy.kind = "NotReturned"
    /\ \E env \in [EnvNames -> EnvValues] :
          /\ environ' = env
          /\ proxy' = get_env_proxy_info(env)
    /\ UNCHANGED <<call, ret, onceVars, lockVars>>

NextEnv == GetEnvProxyInfo

SpecEnv == Init /\ [][NextEnv]_vars

(***************************************************************************)
(* call_once: threads calling the wrapper and wrapper._reset of one        *)
(* decorated function fn, whose body may call both again                   *)
(***************************************************************************)
MaxDepth == 2

Top(t) == frames[t][Len(frames[t])]

Push(t, f) == [frames EXCEPT ![t] = Append(@, f)]

Pop(t) == [frames EXCEPT ![t] = SubSeq(@, 1, Len(@) - 1)]

SetTop(t, f) == [frames EXCEPT ![t] = [@ EXCEPT ![Len(@)] = f]]

In(t, fn, pc) == frames[t] # <<>> /\ Top(t).fn = fn /\ Top(t).pc = pc

\* a thread calls from outside, or from the body of fn it is running
CanCall(t) ==
    /\ Len(frames[t]) < MaxDepth
    /\ IF frames[t] = <<>> THEN TRUE ELSE Top(t).pc = "body"

NewFrame(fn) == [fn |-> fn, pc |-> "acquire", ran |-> FALSE, how |-> "none"]

\* wrapper(*args, **kwargs) is called
CallWrapper(t) ==
    /\ CanCall(t)
    /\ frames' = Push(t, NewFrame("wrapper"))
    /\ UNCHANGED <<called, call_once_lock, starts, returned, urlVars, lockVars>>

\* wrapper._reset() is called
CallReset(t) ==
    /\ CanCall(t)
    /\ frames' = Push(t, NewFrame("_reset"))
    /\ UNCHANGED <<called, call_once_lock, starts, returned, urlVars, lockVars>>

\* acquire(blocking=True, timeout=1.0) returns True
Acquire(t) ==
    /\ frames[t] # <<>> /\ Top(t).pc = "acquire"
    /\ acquirable(call_once_lock, t)
    /\ call_once_lock' = rlock_acquire(call_once_lock, t)
    /\ frames' = SetTop(t, [Top(t) EXCEPT !.pc = IF Top(t).fn = "wrapper" THEN "check" ELSE "clear"])
    /\ UNCHANGED <<called, starts, returned, urlVars, lockVars>>

\* acquire(blocking=True, timeout=1.0) returns False after a second in which
\* another thread kept the RLock: the call raises RuntimeError
AcquireTimeout(t) ==
    /\ frames[t] # <<>> /\ Top(t).pc = "acquire"
    /\ ~acquirable(call_once_lock, t)
    /\ frames' = Pop(t)
    /\ returned' = [thread |-> t, fn |-> Top(t).fn, ran |-> FALSE, how |-> "RuntimeError"]
    /\ UNCHANGED <<called, call_once_lock, starts, urlVars, lockVars>>

\* if fn._called: return None
CheckCalled(t) ==
    /\ In(t, "wrapper", "check")
    /\ frames' = SetTop(t, IF called THEN [Top(t) EXCEPT !.pc = "release", !.how = "None"]
                           ELSE [Top(t) EXCEPT !.pc = "set"])
    /\ UNCHANGED <<called, call_once_lock, starts, returned, urlVars, lockVars>>

\* fn._called = True
SetCalled(t) ==
    /\ In(t, "wrapper", "set")
    /\ called' = TRUE
    /\ frames' = SetTop(t, [Top(t) EXCEPT !.pc = "call"])
    /\ UNCHANGED <<call_once_lock, starts, returned, urlVars, lockVars>>

\* fn(*args, **kwargs): the body of fn starts
CallFn(t) ==
    /\ In(t, "wrapper", "call")
    /\ starts' = starts + 1
    /\ frames' = SetTop(t, [Top(t) EXCEPT !.pc = "body", !.ran = TRUE])
    /\ UNCHANGED <<called, call_once_lock, returned, urlVars, lockVars>>

\* the body of fn returns its result
FnReturns(t) ==
    /\ In(t, "wrapper", "body")
    /\ frames' = SetTop(t, [Top(t) EXCEPT !.pc = "release", !.how = "fn_result"])
    /\ UNCHANGED <<called, call_once_lock, starts, returned, urlVars, lockVars>>

\* the body of fn raises an exception
FnRaises(t) ==
    /\ In(t, "wrapper", "body")
    /\ frames' = SetTop(t, [Top(t) EXCEPT !.pc = "release", !.how = "fn_exception"])
    /\ UNCHANGED <<called, call_once_lock, starts, returned, urlVars, lockVars>>

\* _reset: fn._called = False
ClearCalled(t) ==
    /\ In(t, "_reset", "clear")
    /\ called' = FALSE
    /\ starts' = 0
    /\ frames' = SetTop(t, [Top(t) EXCEPT !.pc = "release", !.how = "None"])
    /\ UNCHANGED <<call_once_lock, returned, urlVars, lockVars>>

\* finally: fn._call_once_lock.release(), and the call ends as decided
Release(t) ==
    /\ frames[t] # <<>> /\ Top(t).pc = "release"
    /\ call_once_lock' = rlock_release(call_once_lock, t)
    /\ frames' = Pop(t)
    /\ returned' = [thread |-> t, fn |-> Top(t).fn, ran |-> Top(t).ran,
                    how |-> IF rlock_owned(call_once_lock, t) THEN Top(t).how ELSE "RuntimeError"]
    /\ UNCHANGED <<called, starts, urlVars, lockVars>>

NextOnce ==
    \E t \in Threads :
        \/ CallWrapper(t)
        \/ CallReset(t)
        \/ Acquire(t)
        \/ AcquireTimeout(t)
        \/ CheckCalled(t)
        \/ SetCalled(t)
        \/ CallFn(t)
        \/ FnReturns(t)
        \/ FnRaises(t)
        \/ ClearCalled(t)
        \/ Release(t)

SpecOnce == Init /\ [][NextOnce]_vars

(***************************************************************************)
(* lock: threads calling lock(), unlock(), __enter__ and __exit__ of one   *)
(* object of a decorated class                                             *)
(***************************************************************************)
MaxHold == 2

\* the thread does not hold the RLock MaxHold times already
CanHold(t) == rlock.owner = t => rlock.count < MaxHold

InMethod(method, pc) == [method |-> method, pc |-> pc]

\* self.lock() is called
CallLock(t) ==
    /\ where[t] = Outside
    /\ CanHold(t)
    /\ where' = [where EXCEPT ![t] = InMethod("lock", "acquire")]
    /\ UNCHANGED <<rlock, locked, urlVars, onceVars>>

\* self.unlock() is called
CallUnlock(t) ==
    /\ where[t] = Outside
    /\ where' = [where EXCEPT ![t] = InMethod("unlock", "release")]
    /\ UNCHANGED <<rlock, locked, urlVars, onceVars>>

\* __enter__ is called, which calls self.lock()
CallEnter(t) ==
    /\ where[t] = Outside
    /\ CanHold(t)
    /\ where' = [where EXCEPT ![t] = InMethod("__enter__", "acquire")]
    /\ UNCHANGED <<rlock, locked, urlVars, onceVars>>

\* __exit__ is called, which calls self.unlock()
CallExit(t) ==
    /\ where[t] = Outside
    /\ where' = [where EXCEPT ![t] = InMethod("__exit__", "release")]
    /\ UNCHANGED <<rlock, locked, urlVars, onceVars>>

\* lock: self._lock.acquire(), which waits while another thread owns the RLock
LockAcquire(t) ==
    /\ where[t].pc = "acquire"
    /\ acquirable(rlock, t)
    /\ rlock' = rlock_acquire(rlock, t)
    /\ where' = [where EXCEPT ![t].pc = "set"]
    /\ UNCHANGED <<locked, urlVars, onceVars>>

\* lock: self._locked = True, and the method returns
LockSet(t) ==
    /\ where[t].pc = "set"
    /\ locked' = TRUE
    /\ where' = [where EXCEPT ![t] = Outside]
    /\ UNCHANGED <<rlock, urlVars, onceVars>>

\* unlock: self._lock.release(), its RuntimeError passed over
UnlockRelease(t) ==
    /\ where[t].pc = "release"
    /\ rlock' = rlock_release(rlock, t)
    /\ where' = [where EXCEPT ![t].pc = "clear"]
    /\ UNCHANGED <<locked, urlVars, onceVars>>

\* unlock: finally self._locked = False, and the method returns
UnlockClear(t) ==
    /\ where[t].pc = "clear"
    /\ locked' = FALSE
    /\ where' = [where EXCEPT ![t] = Outside]
    /\ UNCHANGED <<rlock, urlVars, onceVars>>

NextLock ==
    \E t \in Threads :
        \/ CallLock(t)
        \/ CallUnlock(t)
        \/ CallEnter(t)
        \/ CallExit(t)
        \/ LockAcquire(t)
        \/ LockSet(t)
        \/ UnlockRelease(t)
        \/ UnlockClear(t)

SpecLock == Init /\ [][NextLock]_vars

(***************************************************************************)
(* Properties of parse_url                                                 *)
(***************************************************************************)
Returned == ret.kind # "NotReturned"

TypedErrors == {"Empty", "None", "Scheme", "JustScheme", "Port"}

\* TRUE when t occurs in s starting at position i
OccursAt(s, t, i) == i >= 1 /\ i + Len(t) - 1 <= Len(s) /\ SubSeq(s, i, i + Len(t) - 1) = t

IsStr(v) == v # None

HasGoodPrefix(s) == OccursAt(s, S_HTTP \o S_SEP, 1) \/ OccursAt(s, S_HTTPS \o S_SEP, 1)

\* C1: every parse_url call returns the 5-tuple or raises one of the five typed
\* errors, and that error carries the entry the caller passed; no other
\* exception reaches the caller.
C1_OnlyTypedErrors ==
    Returned =>
        \/ ret.kind = "ok"
        \/ ret.kind \in TypedErrors /\ ret.serverurl = call.entry

\* the shapes C2 lists: "http:" or "https:" and then a slash, a leading ":/",
\* or a run of non-blank characters followed by "://" anywhere in the entry
C2_ListedShape(s) ==
    \/ OccursAt(s, S_HTTP \o <<":", "/">>, 1)
    \/ OccursAt(s, S_HTTPS \o <<":", "/">>, 1)
    \/ OccursAt(s, <<":", "/">>, 1)
    \/ \E i \in 2..Len(s) : OccursAt(s, S_SEP, i) /\ s[i - 1] \notin Whitespace

\* the shapes the entry must begin with: "http" or "https" and then ":" or
\* "/", a leading ":/", or a run of non-blank characters from the first
\* character on that "://" follows
LeadingBadShape(s) ==
    \/ \E c \in {":", "/"} : OccursAt(s, Append(S_HTTP, c), 1) \/ OccursAt(s, Append(S_HTTPS, c), 1)
    \/ OccursAt(s, <<":", "/">>, 1)
    \/ \E i \in 2..Len(s) : OccursAt(s, S_SEP, i) /\ \A j \in 1..(i - 1) : s[j] \notin Whitespace

\* C2 as stated: parse_url raises the scheme error exactly for the non-empty
\* entries without a leading "http://" or "https://" that have one of the
\* listed shapes, the third of them anywhere in the entry.
C2_BadSchemeAnywhere ==
    Returned =>
        (ret.kind = "Scheme" <=>
            /\ IsStr(call.entry) /\ call.entry # <<>>
            /\ ~HasGoodPrefix(call.entry)
            /\ C2_ListedShape(call.entry))

\* C2 amended: parse_url raises the scheme error exactly for the non-empty
\* entries without a leading "http://" or "https://" that begin with "http"
\* or "https" followed by ":" or "/", or begin with ":/", or begin with a run
\* of non-blank characters followed by "://".
C2_BadSchemeLeading ==
    Returned =>
        (ret.kind = "Scheme" <=>
            /\ IsStr(call.entry) /\ call.entry # <<>>
            /\ ~HasGoodPrefix(call.entry)
            /\ LeadingBadShape(call.entry))

\* a host named http with a port and no scheme is refused as a bad scheme
C2_Witness ==
    /\ ret.kind = "Scheme"
    /\ call.entry = S_HTTP \o <<":", "1">>

\* what follows the leading "http://" or "https://" of s
AfterGoodPrefix(s) ==
    IF OccursAt(s, S_HTTPS \o S_SEP, 1) THEN SubSeq(s, 9, Len(s)) ELSE SubSeq(s, 8, Len(s))

\* C3 as stated: for an entry with a leading "http://" or "https://",
\* parse_url raises the just-scheme error when nothing follows, and when at
\* least one character follows the entry has a good scheme: neither scheme
\* error is raised and the entry is handed to urlparse as it is.
C3_AnyCharacterIsGood ==
    (Returned /\ IsStr(call.entry) /\ HasGoodPrefix(call.entry)) =>
        IF AfterGoodPrefix(call.entry) = <<>>
        THEN ret.kind = "JustScheme"
        ELSE ret.kind \notin {"JustScheme", "Scheme"} /\ ret.good_url = call.entry

\* C3 amended: parse_url raises the just-scheme error when nothing or a
\* whitespace character follows the prefix, and when a non-whitespace
\* character follows it the entry has a good scheme: neither scheme error is
\* raised and the entry is handed to urlparse as it is.
C3_NonBlankIsGood ==
    (Returned /\ IsStr(call.entry) /\ HasGoodPrefix(call.entry)) =>
        LET rest == AfterGoodPrefix(call.entry)
        IN  IF rest = <<>> \/ rest[1] \in Whitespace
            THEN ret.kind = "JustScheme" /\ ret.serverurl = call.entry
            ELSE ret.kind \notin {"JustScheme", "Scheme"} /\ ret.good_url = call.entry

\* a scheme followed by a blank and a host is refused as a scheme alone
C3_Witness ==
    /\ ret.kind = "JustScheme"
    /\ call.entry = S_HTTPS \o S_SEP \o <<" ", "a">>

(***************************************************************************)
(* The segments of an entry, as the format                                 *)
(* [scheme://][username[:password]@]hostname[:port][/prefix] names them    *)
(***************************************************************************)
HasChar(s, c) == \E i \in 1..Len(s) : s[i] = c

\* the text of s before the first character of cs, all of s when there is none
Before(s, cs) ==
    LET stops == {i \in 1..Len(s) : s[i] \in cs}
    IN  IF stops = {} THEN s
        ELSE SubSeq(s, 1, (CHOOSE i \in stops : \A j \in stops : i <= j) - 1)

\* the text of s from the first character of cs on, empty when there is none
From(s, cs) == SubSeq(s, Len(Before(s, cs)) + 1, Len(s))

\* the text of s after the first character of cs, empty when there is none
After(s, cs) == SubSeq(s, Len(Before(s, cs)) + 2, Len(s))

AfterScheme(e) == IF HasGoodPrefix(e) THEN AfterGoodPrefix(e) ELSE e

NetlocSeg(e) == Before(AfterScheme(e), {"/", "?", "#"})
PathSeg(e)   == Before(From(AfterScheme(e), {"/", "?", "#"}), {"?", "#"})

\* the credentials are the text before the first "@" of the network location,
\* the host[:port] part is the text after it up to any further "@"
HasCreds(e) == HasChar(NetlocSeg(e), "@")
CredSeg(e)  == IF HasCreds(e) THEN Before(NetlocSeg(e), {"@"}) ELSE <<>>
HostSeg(e)  == IF HasCreds(e) THEN Before(After(NetlocSeg(e), {"@"}), {"@"}) ELSE NetlocSeg(e)

UserTok(e)    == Before(CredSeg(e), {":"})
HasPassTok(e) == HasChar(CredSeg(e), ":")
PassTok(e)    == Before(After(CredSeg(e), {":"}), {":"})
HostTok(e)    == Before(HostSeg(e), {":"})
HasPortTok(e) == HasChar(HostSeg(e), ":")
PortTok(e)    == Before(After(HostSeg(e), {":"}), {":"})

\* the segment when it is not empty, else the caller's default
SegOrDefault(seg, default) == IF seg # <<>> THEN seg ELSE default

Absent(v) == v = None \/ v = <<>>

\* the port parse_url has to judge: the one in the entry, else the default
EffPort(e, d) == IF HasPortTok(e) THEN PortTok(e) ELSE d.port

BadPort(e, d) ==
    \/ HasPortTok(e) /\ PortTok(e) = <<>>
    \/ ~Absent(EffPort(e, d)) /\ ~int_accepts(EffPort(e, d))

C6_EmptyPortIsPortError ==
    (Returned /\ IsStr(call.entry) /\ call.entry # <<>>
              /\ ret.kind \notin {"Scheme", "JustScheme"}) =>
        /\ (HasPortTok(call.entry) /\ PortTok(call.entry) = <<>>) => ret.kind = "Port"
        /\ ~HasPortTok(call.entry) =>
              /\ ret.kind = "ok" => ret.port = call.defaults.port
              /\ ret.kind = "Port" => ~int_accepts(call.defaults.port)

HasSep(e) == \E i \in 1..Len(e) : OccursAt(e, S_SEP, i)

\* the entries C7 is about: a str, not empty, without "://" and without a
\* bad-scheme shape
SchemeLess(e) == IsStr(e) /\ e # <<>> /\ ~HasSep(e) /\ ~LeadingBadShape(e)

\* C7 as stated: parse_url returns the 5-tuple for every non-empty entry that
\* holds no "://" and has no bad-scheme shape.  The entries on which the URI
\* split raises are left aside here: the statement fails without them.
C7_SchemeLessSucceeds ==
    (Returned /\ SchemeLess(call.entry) /\ ret.kind # "ValueError") => ret.kind = "ok"

\* C7 amended: for every non-empty entry that holds no "://" and has no
\* bad-scheme shape, parse_url prepends "https://" and raises none of the
\* empty, none, scheme and just-scheme errors; it raises the port error only
\* for an empty port or one int() rejects, the untyped ValueError only for a
\* bracket in the network location, and returns the 5-tuple otherwise.
C7_SchemeLessPrepends ==
    (Returned /\ SchemeLess(call.entry)) =>
        /\ ret.kind \in {"ok", "Port", "ValueError"}
        /\ ret.good_url = S_HTTPS \o S_SEP \o call.entry
        /\ ret.kind = "Port" => BadPort(call.entry, call.defaults)
        /\ ret.kind = "ValueError" =>
              HasChar(NetlocSeg(call.entry), "[") \/ HasChar(NetlocSeg(call.entry), "]")
        /\ ret.kind = "ok" => ~BadPort(call.entry, call.defaults)

\* an entry without a scheme is parsed as an https URL
C7_Witness ==
    /\ ret.kind = "ok"
    /\ call.entry = <<"a", ":", "1">>
    /\ ret.good_url = S_HTTPS \o S_SEP \o <<"a", ":", "1">>
    /\ ret.port = <<"1">>

\* a field of the tuple that has a value to write down
Present(v) == v # None /\ v # <<>>

\* the string [username[:password]@]hostname[:port][prefix] rebuilt from the
\* present fields of a returned tuple
Canonical(r) ==
    (IF Present(r.username)
     THEN r.username \o (IF Present(r.password) THEN <<":">> \o r.password ELSE <<>>) \o <<"@">>
     ELSE <<>>)
    \o (IF Present(r.hostname) THEN r.hostname ELSE <<>>)
    \o (IF Present(r.port) THEN <<":">> \o r.port ELSE <<>>)
    \o (IF Present(r.prefix) THEN r.prefix ELSE <<>>)

SameFields(r, q) ==
    /\ q.kind = "ok"
    /\ q.username = r.username
    /\ q.password = r.password
    /\ q.hostname = r.hostname
    /\ q.port = r.port
    /\ q.prefix = r.prefix

PasswordKept(r, d) ==
    \/ Present(r.username) /\ Present(r.password)
    \/ r.password = d.password

ProxyReturned == proxy.kind # "NotReturned"

\* the order C8 gives
C8_Order == <<"HTTPS_PROXY", "https_proxy", "HTTP_PROXY", "http_proxy">>

\* the positions of C8_Order whose variable is set to a non-empty value
SetAt == {i \in 1..Len(C8_Order) : ~Absent(environ[C8_Order[i]])}

\* the value of the first variable that is set to a non-empty value
FirstSet == environ[C8_Order[CHOOSE i \in SetAt : \A j \in SetAt : i <= j]]

\* C8: get_env_proxy_info goes by the first of HTTPS_PROXY, https_proxy,
\* HTTP_PROXY, http_proxy that is set to a non-empty value and by nothing
\* else: it raises what parse_url raises for that value, returns the parse of
\* that value otherwise, and returns the all-empty record when none is set.
C8_FirstSetVariableDecides ==
    ProxyReturned =>
        IF SetAt = {}
        THEN /\ proxy.kind = "ok"
             /\ proxy.proxy_username = <<>> /\ proxy.proxy_password = <<>>
             /\ proxy.proxy_hostname = <<>> /\ proxy.proxy_port = <<>>
        ELSE LET r == parse_url(FirstSet, ProxyDefaults)
             IN  IF r.kind # "ok"
                 THEN proxy.kind = r.kind /\ proxy.serverurl = r.serverurl
                 ELSE /\ proxy.kind = "ok"
                      /\ proxy.proxy_username = r.username
                      /\ proxy.proxy_password = r.password
                      /\ proxy.proxy_hostname = r.hostname
                      /\ proxy.proxy_port = IntObj(int_value(r.port))

\* the error of the first non-empty variable is raised although a later
\* variable holds a well-formed value
C8_Witness ==
    /\ environ["HTTPS_PROXY"] = <<>>
    /\ environ["https_proxy"] = <<"a", ":">>
    /\ environ["HTTP_PROXY"] = <<"b", ":", "2">>
    /\ proxy.kind = "Port"
    /\ proxy.serverurl = <<"a", ":">>

\* C9 as stated: in every record get_env_proxy_info returns, proxy_username,
\* proxy_password and proxy_hostname are strings, and proxy_port is an integer
\* or the empty or absent marker.
C9_FieldsAreStrings ==
    proxy.kind = "ok" =>
        /\ IsStr(proxy.proxy_username)
        /\ IsStr(proxy.proxy_password)
        /\ IsStr(proxy.proxy_hostname)
        /\ Absent(proxy.proxy_port) \/ proxy.proxy_port[1] = "int"

\* C9 amended: in every record get_env_proxy_info returns, proxy_username and
\* proxy_hostname are the segment of the deciding value when it is present
\* and not empty and None otherwise, proxy_password is the text after the
\* first ":" of the credentials when there is one and None otherwise, and
\* proxy_port is the integer value of the port of the value, or of the default
\* port when the value has none; when no variable is set all four are the
\* empty string.  proxy_port is never an integer made from an empty port.
C9_AbsentSegmentsAreNone ==
    proxy.kind = "ok" =>
        IF SetAt = {}
        THEN /\ proxy.proxy_username = <<>> /\ proxy.proxy_password = <<>>
             /\ proxy.proxy_hostname = <<>> /\ proxy.proxy_port = <<>>
        ELSE /\ proxy.proxy_username = SegOrDefault(UserTok(FirstSet), None)
             /\ proxy.proxy_password = IF HasPassTok(FirstSet) THEN PassTok(FirstSet) ELSE None
             /\ proxy.proxy_hostname = SegOrDefault(HostTok(FirstSet), None)
             /\ ~Absent(EffPort(FirstSet, ProxyDefaults))
             /\ proxy.proxy_port = IntObj(int_value(EffPort(FirstSet, ProxyDefaults)))

\* a value that is a host alone gives None for user and password and the
\* default port as an integer
C9_Witness ==
    /\ proxy.kind = "ok"
    /\ environ["HTTPS_PROXY"] = <<"a">>
    /\ proxy.proxy_username = None
    /\ proxy.proxy_password = None
    /\ proxy.proxy_hostname = <<"a">>
    /\ proxy.proxy_port = IntObj(3128)

(***************************************************************************)
(* More than one "@" in the network location                               *)
(***************************************************************************)
CountChar(s, c) == Cardinality({i \in 1..Len(s) : s[i] = c})

\* the text of s before its last c, and the text after it
BeforeLast(s, c) ==
    LET at == {i \in 1..Len(s) : s[i] = c}
    IN  SubSeq(s, 1, (CHOOSE i \in at : \A j \in at : j <= i) - 1)

AfterLast(s, c) ==
    LET at == {i \in 1..Len(s) : s[i] = c}
    IN  SubSeq(s, (CHOOSE i \in at : \A j \in at : j <= i) + 1, Len(s))

\* C13: when the network location of the entry holds more than one "@",
\* parse_url splits it once on the last "@": in every tuple it returns the
\* username is the first ":" token of the text left of the last "@", and the
\* hostname and the port are the ":" tokens of the text right of the last "@",
\* each replaced by the caller's default when it is empty or missing.
C13_SplitsOnLastAt ==
    (ret.kind = "ok" /\ CountChar(NetlocSeg(call.entry), "@") > 1) =>
        LET left  == BeforeLast(NetlocSeg(call.entry), "@")
            right == AfterLast(NetlocSeg(call.entry), "@")
        IN  /\ ret.username = SegOrDefault(Before(left, {":"}), call.defaults.username)
            /\ ret.hostname = SegOrDefault(Before(right, {":"}), call.defaults.hostname)
            /\ ret.port = IF HasChar(right, ":")
                          THEN Before(After(right, {":"}), {":"})
                          ELSE call.defaults.port

(***************************************************************************)
(* Properties of call_once                                                 *)
(***************************************************************************)
\* the wrapper call of thread t ends in this step without having run the body
EndsWithoutRunning(t) ==
    /\ frames[t] # <<>>
    /\ Top(t).fn = "wrapper"
    /\ ~Top(t).ran
    /\ frames'[t] = SubSeq(frames[t], 1, Len(frames[t]) - 1)

\* C11: under every interleaving of wrapper and _reset calls of the threads,
\* re-entrant calls from the body and bodies that raise included, the body of
\* fn starts at most once after fn._called was last cleared, and a call that
\* gets to the test of fn._called when the body has not started since then
\* goes on to run the body instead of returning None.
C11_BodyStartsOncePerReset ==
    [][/\ starts' <= 1
       /\ \A t \in Threads :
            (In(t, "wrapper", "check") /\ frames'[t] # frames[t] /\ starts = 0)
                => frames'[t][Len(frames'[t])].pc = "set"]_vars

\* the body is running in a thread, and its own call of the wrapper is about
\* to return None without a second start of the body
C11_Witness ==
    /\ starts = 1
    /\ \E t \in Threads :
          /\ Len(frames[t]) = 2
          /\ frames[t][1].fn = "wrapper" /\ frames[t][1].pc = "body"
          /\ frames[t][2] = [fn |-> "wrapper", pc |-> "release", ran |-> FALSE, how |-> "None"]

\* C12: a wrapper call that ends without having run the body, when the body
\* has started since fn._called was last cleared, ends by returning None and
\* never by raising an error.
C12_OtherCallsReturnNone ==
    [][\A t \in Threads :
          (EndsWithoutRunning(t) /\ starts >= 1) => returned'.how = "None"]_vars

(***************************************************************************)
(* Properties of lock                                                      *)
(***************************************************************************)
\* C14: whenever no thread is inside lock(), unlock(), __enter__ or __exit__
\* of the object, its 'locked' attribute is True exactly when some thread
\* holds the underlying RLock; so it stays True after the inner unlock() of
\* nested lock() calls, and after an unlock() by a thread that does not hold
\* the RLock while another thread does.
C14_LockedIffHeld ==
    (\A t \in Threads : where[t] = Outside) =>
        (locked <=> rlock.owner # "nobody")

====
